---- MODULE Spec2Model ----
(***************************************************************************)
(* Loan workflow of credit-sea: the application state machine              *)
(* (createApplication, verifyApplication, approveApplication) and the loan *)
(* ledger (makePayment), as request handlers running against a shared      *)
(* MongoDB store.  Every await of a handler is one step, so requests on    *)
(* the same document interleave between their read and their write.        *)
(* Money is counted in hundredths of a currency unit.                      *)
(***************************************************************************)
EXTENDS Integers, Sequences, FiniteSets, Bags, TLC

\* ---------------------------------------------------------------- bounds
MaxReq == 2
MaxApps == 2
MaxTxns == 2

\* ---------------------------------------------------------------- inputs
None == "none"
\* an interestRate that is absent from the request (undefined)
NoRate == 0
Customers == {"u1", "u2"}
Verifiers == {"v1", "v2"}
Admins == {"a1"}
SuperAdmins == {"s1"}
Amounts == {100000}
Tenures == {2}
Rates == {12}
\* amounts of payment requests, valid and not
PayAmounts == {-50000, 0, 25000, 50000, 99950, 100000}
NotesIn == {"notes"}
ReasonsIn == {"reason"}
\* new Date(): month index counted from a January, and day of the month
Dates == {[m |-> 0, d |-> 31]}
\* the time of a call that reads a schedule
Clock == {[m |-> 0, d |-> 31], [m |-> 2, d |-> 15]}
\* approved loans read by getPaymentSchedule: amount (cents), yearly rate, months
ScheduleLoans == {<<100000, 12, 2>>, <<120000, 12, 12>>, <<102700, 50, 36>>}
\* installments paid on such a loan before its schedule is read
PaidInstallments == {0, 1}
\* days on which the loan whose due date is followed was approved
ApprovalDates == {[m |-> 0, d |-> 31], [m |-> 5, d |-> 15], [m |-> 11, d |-> 31]}
\* readings of the clock by isOverdue and getDaysOverdue: a day and the
\* milliseconds elapsed in it
Instants ==
  {[m |-> 2, d |-> 2, ms |-> 86399999], [m |-> 2, d |-> 3, ms |-> 0],
   [m |-> 2, d |-> 3, ms |-> 1], [m |-> 2, d |-> 4, ms |-> 0],
   [m |-> 6, d |-> 20, ms |-> 43200000], [m |-> 13, d |-> 5, ms |-> 0]}
\* what the owner has paid before the loan is asked whether it is overdue
PaidBefore == {0, 50000, 100000}
\* arguments of calculateEMI: principal (cents), yearly rate, months
EmiPrincipals == {1, 100000, 102700, 12000000}
EmiRates == {12, 24, 50}
EmiTenures == {1, 2, 3, 12, 36}

\* ApplicationStatus
PENDING == "PENDING"
VERIFIED == "VERIFIED"
REJECTED == "REJECTED"
APPROVED == "APPROVED"
ApplicationStatus == {PENDING, VERIFIED, REJECTED, APPROVED}

VARIABLES
  applications,   \* the Application collection, _id = index
  loans,          \* the Loan collection, _id = index
  transactions,   \* the Transaction collection, in insertion order
  req,            \* the requests being served: a bag of handler activations
  sent            \* the response sent by the step just taken, if any

vars == <<applications, loans, transactions, req, sent>>

\* ------------------------------------------------------------- responses
Resp(code, msg) == [statusCode |-> code, message |-> msg]
sendSuccess(msg, code) == Resp(code, msg)
sendError(msg, code) == Resp(code, msg)
sendNotFound(msg) == Resp(404, msg)
sendForbidden(msg) == Resp(403, msg)
NoResp == Resp(0, None)

\* the local state of a handler activation
Request ==
  [op |-> None, pc |-> None, caller |-> None, id |-> 0, status |-> None,
   interestRate |-> NoRate, notes |-> None, rejectionReason |-> None,
   amount |-> 0, tenure |-> 0, doc |-> None, transaction |-> 0,
   now |-> None, today |-> None]

InFlight == BagToSet(req)

At(q, op, pc) == q \in InFlight /\ q.op = op /\ q.pc = pc

\* a request arrives
Begin(q) ==
  /\ BagCardinality(req) < MaxReq
  /\ req' = req (+) SetToBag({q})
  /\ sent' = NoResp

\* the handler returns after sending a response
Finish(q, response) ==
  /\ req' = req (-) SetToBag({q})
  /\ sent' = response

\* the handler awaits its next store operation
Goto(q, next) ==
  /\ req' = (req (-) SetToBag({q})) (+) SetToBag({next})
  /\ sent' = NoResp

\* ------------------------------------------------------- mongoose save()
\* save() of a loaded document sends $set for the paths whose value was
\* changed in memory, and leaves every other stored path as it is.
SaveModified(stored, loaded, edited) ==
  [f \in DOMAIN stored |-> IF edited[f] # loaded[f] THEN edited[f] ELSE stored[f]]

\* ------------------------------------------------------------ Application
canBeVerified_Always(app) == TRUE

canBeVerified(app) == app.status = PENDING

canBeApproved_Always(app) == TRUE

canBeApproved(app) == app.status = VERIFIED

NewApplication(userId, amount, tenure) ==
  [userId |-> userId, status |-> PENDING, amount |-> amount, tenure |-> tenure,
   verifierId |-> None, verificationNotes |-> None, adminId |-> None,
   rejectionReason |-> None]

\* ------------------------------------------------------------------ dates
DaysInMonth(m) ==
  LET k == m % 12 IN
  IF k = 1 THEN 28 ELSE IF k \in {3, 5, 8, 10} THEN 30 ELSE 31

\* date.setMonth(date.getMonth() + 1): the day of the month is kept, and a
\* day past the end of the target month rolls over into the month after it
AddMonth(date) ==
  IF date.d <= DaysInMonth(date.m + 1)
  THEN [m |-> date.m + 1, d |-> date.d]
  ELSE [m |-> date.m + 2, d |-> date.d - DaysInMonth(date.m + 1)]

\* the days from the start of month 0 to a date
RECURSIVE DayNumber(_)
DayNumber(date) ==
  IF date.m = 0 THEN date.d
  ELSE DaysInMonth(date.m - 1) + DayNumber([m |-> date.m - 1, d |-> date.d])

\* ---------------------------------------------------------------- numbers
\* An integer of any size: its digits in base BigBase, least significant
\* first, without leading zeros (<<>> is 0).  The amounts of a schedule are
\* fractions whose numerators and denominators outgrow the machine integers.
BigBase == 10000

RECURSIVE BigOfNat(_)
BigOfNat(n) == IF n = 0 THEN <<>> ELSE <<n % BigBase>> \o BigOfNat(n \div BigBase)

RECURSIVE BigTrim(_)
BigTrim(x) ==
  IF x = <<>> THEN x
  ELSE IF x[Len(x)] = 0 THEN BigTrim(SubSeq(x, 1, Len(x) - 1)) ELSE x

Limb(x, i) == IF i <= Len(x) THEN x[i] ELSE 0

RECURSIVE BigAddFrom(_, _, _, _)
BigAddFrom(x, y, i, carry) ==
  IF i > Len(x) /\ i > Len(y)
  THEN IF carry = 0 THEN <<>> ELSE <<carry>>
  ELSE LET s == Limb(x, i) + Limb(y, i) + carry
       IN <<s % BigBase>> \o BigAddFrom(x, y, i + 1, s \div BigBase)

BigAdd(x, y) == BigAddFrom(x, y, 1, 0)

RECURSIVE BigSubFrom(_, _, _, _)
BigSubFrom(x, y, i, borrow) ==
  IF i > Len(x) THEN <<>>
  ELSE LET d == Limb(x, i) - Limb(y, i) - borrow
       IN IF d < 0 THEN <<d + BigBase>> \o BigSubFrom(x, y, i + 1, 1)
                   ELSE <<d>> \o BigSubFrom(x, y, i + 1, 0)

\* x - y for x >= y
BigSub(x, y) == BigTrim(BigSubFrom(x, y, 1, 0))

RECURSIVE BigLessFrom(_, _, _)
BigLessFrom(x, y, i) ==
  IF i = 0 THEN FALSE
  ELSE IF x[i] # y[i] THEN x[i] < y[i] ELSE BigLessFrom(x, y, i - 1)

\* x < y
BigLess(x, y) ==
  IF Len(x) # Len(y) THEN Len(x) < Len(y) ELSE BigLessFrom(x, y, Len(x))

RECURSIVE BigScaleFrom(_, _, _, _)
BigScaleFrom(x, k, i, carry) ==
  IF i > Len(x) THEN BigOfNat(carry)
  ELSE LET s == x[i] * k + carry
       IN <<s % BigBase>> \o BigScaleFrom(x, k, i + 1, s \div BigBase)

\* x * k for 0 <= k < BigBase
BigScale(x, k) == IF k = 0 THEN <<>> ELSE BigScaleFrom(x, k, 1, 0)

RECURSIVE BigMul(_, _)
BigMul(x, y) ==
  IF x = <<>> \/ y = <<>> THEN <<>>
  ELSE LET rest == BigMul(x, Tail(y))
       IN BigAdd(BigScale(x, Head(y)), IF rest = <<>> THEN <<>> ELSE <<0>> \o rest)

\* Math.pow(k, n) for integers k, n
RECURSIVE BigPow(_, _)
BigPow(k, n) ==
  IF n = 0 THEN <<1>>
  ELSE LET h == BigPow(k, n \div 2)
       IN IF n % 2 = 0 THEN BigMul(h, h) ELSE BigScale(BigMul(h, h), k)

\* the largest q in lo..hi with q * den <= num, lo being one such q
RECURSIVE BigQuotient(_, _, _, _)
BigQuotient(num, den, lo, hi) ==
  IF lo = hi THEN lo
  ELSE LET mid == lo + (hi - lo + 1) \div 2
       IN IF BigLess(num, BigMul(den, BigOfNat(mid)))
          THEN BigQuotient(num, den, lo, mid - 1)
          ELSE BigQuotient(num, den, mid, hi)

\* Math.round(x) of the fraction x = num / den with lo <= x <= hi
BigRound(x, lo, hi) ==
  LET twice == [num |-> BigAdd(BigScale(x.num, 2), x.den), den |-> BigScale(x.den, 2)]
  IN BigQuotient(twice.num, twice.den, lo, hi)

RECURSIVE Gcd(_, _)
Gcd(a, b) == IF b = 0 THEN a ELSE Gcd(b, a % b)

\* rate / (12 * 100) as the fraction a / b in lowest terms
MonthlyRate(rate) ==
  LET g == Gcd(rate, 1200) IN [a |-> rate \div g, b |-> 1200 \div g]

\* ---------------------------------------------------------------- doubles
\* A number of the program is an IEEE 754 double: the value m * 2^e with a
\* significand Two52 <= m < Two53 (m = <<>> for 0).  A division that decides
\* an outcome by comparison is computed on doubles, rounding included.
RECURSIVE BigToNat(_)
BigToNat(x) == IF x = <<>> THEN 0 ELSE Head(x) + BigBase * BigToNat(Tail(x))

\* the quotient and the remainder of num by den, one digit at a time from the
\* most significant digit of num
RECURSIVE BigDivFrom(_, _, _, _, _)
BigDivFrom(num, den, i, rem, q) ==
  IF i = 0 THEN [q |-> BigTrim(q), r |-> rem]
  ELSE LET cur == [v |-> BigTrim(<<num[i]>> \o rem)]
           d == BigQuotient(cur.v, den, 0, BigBase - 1)
       IN BigDivFrom(num, den, i - 1, BigSub(cur.v, BigScale(den, d)), <<d>> \o q)

BigDivMod(num, den) == BigDivFrom(num, den, Len(num), <<>>, <<>>)

\* 2^52 and 2^53: a double has a significand m with Two52 <= m < Two53 and
\* the value m * 2^e
Two52 == BigPow(2, 52)
Two53 == BigPow(2, 53)

\* num / den = (x.num / x.den) * 2^x.e with Two52 <= x.num / x.den < Two53
RECURSIVE Normalize(_)
Normalize(x) ==
  IF ~BigLess(x.num, BigMul(x.den, Two53))
  THEN Normalize([num |-> x.num, den |-> BigScale(x.den, 2), e |-> x.e + 1])
  ELSE IF BigLess(x.num, BigMul(x.den, Two52))
  THEN Normalize([num |-> BigScale(x.num, 2), den |-> x.den, e |-> x.e - 1])
  ELSE x

\* the double nearest to num / den, ties to the even significand
RoundToDouble(num, den) ==
  IF num = <<>> THEN [m |-> <<>>, e |-> 0]
  ELSE LET x == Normalize([num |-> num, den |-> den, e |-> 0])
           dm == BigDivMod(x.num, x.den)
           twice == [r |-> BigScale(dm.r, 2)]
           up == \/ BigLess(x.den, twice.r)
                 \/ twice.r = x.den /\ dm.q[1] % 2 = 1
           m == [v |-> IF up THEN BigAdd(dm.q, <<1>>) ELSE dm.q]
       IN IF m.v = Two53 THEN [m |-> Two52, e |-> x.e + 1] ELSE [m |-> m.v, e |-> x.e]

\* the number literal with the value cents / 100
DoubleOfCents(cents) == RoundToDouble(BigOfNat(cents), <<100>>)

\* x - y for doubles x >= y
DoubleMinus(x, y) ==
  LET e == IF x.e < y.e THEN x.e ELSE y.e
      d == RoundToDouble(BigSub(BigMul(x.m, BigPow(2, x.e - e)),
                                BigMul(y.m, BigPow(2, y.e - e))), <<1>>)
  IN IF x.m = <<>> THEN x ELSE IF y.m = <<>> THEN x ELSE [m |-> d.m, e |-> d.e + e]

\* x / y for doubles x >= 0, y > 0
DoubleDiv(x, y) ==
  LET d == RoundToDouble(x.m, y.m) IN [m |-> d.m, e |-> d.e + x.e - y.e]

\* Math.floor(x) for a double 0 <= x < 2^31
DoubleFloor(x) ==
  IF x.m = <<>> THEN 0
  ELSE IF x.e >= 0 THEN BigToNat(BigMul(x.m, BigPow(2, x.e)))
  ELSE BigToNat(BigDivMod(x.m, BigPow(2, 0 - x.e)).q)

\* ------------------------------------------------------------------- Loan
calculateEMI_NoGrowth(principal, rate, tenure) ==
  LET r == MonthlyRate(rate)
      pow == [up |-> BigPow(r.a + r.b, tenure), down |-> BigPow(r.b, tenure)]
      emi == [num |-> BigScale(BigMul(pow.down, BigOfNat(principal)), r.a),
              den |-> BigScale(BigSub(pow.up, pow.down), r.b)]
  IN BigRound(emi, 0, principal + 2)

\* emi = principal * monthlyRate * (1 + monthlyRate)^tenure
\*       / ((1 + monthlyRate)^tenure - 1), rounded to two decimals;
\* with monthlyRate = a / b this is
\*       principal * a * (a + b)^tenure / (b * ((a + b)^tenure - b^tenure)),
\* a value between principal / tenure and principal / tenure + principal * a / b
calculateEMI(principal, rate, tenure) ==
  LET r == MonthlyRate(rate)
      pow == [up |-> BigPow(r.a + r.b, tenure), down |-> BigPow(r.b, tenure)]
      emi == [num |-> BigScale(BigMul(pow.up, BigOfNat(principal)), r.a),
              den |-> BigScale(BigSub(pow.up, pow.down), r.b)]
  IN BigRound(emi, principal \div tenure,
              principal \div tenure + (principal * r.a) \div r.b + 2)

NewLoan(applicationId, app, interestRate, now) ==
  [applicationId |-> applicationId, userId |-> app.userId, approvalDate |-> now,
   interestRate |-> interestRate, principalLeft |-> app.amount,
   tenureMonths |-> app.tenure, totalAmount |-> app.amount, isPaid |-> FALSE,
   emi |-> IF interestRate = NoRate THEN 0
           ELSE calculateEMI(app.amount, interestRate, app.tenure),
   nextPaymentDate |-> AddMonth(now)]

\* loanSchema validators run by save()
LoanValid(loan) ==
  /\ loan.interestRate >= 1 /\ loan.interestRate <= 50
  /\ loan.principalLeft >= 0
  /\ loan.tenureMonths >= 1 /\ loan.tenureMonths <= 360
  /\ loan.emi >= 100
  /\ loan.totalAmount >= 100

DuplicateKey_NoIndex(applicationId) == FALSE

\* unique index on Loan.applicationId
DuplicateKey(applicationId) ==
  \E l \in DOMAIN loans : loans[l].applicationId = applicationId

ApplyPayment_Reamortised(loan, amount) ==
  LET left == IF loan.principalLeft - amount > 0 THEN loan.principalLeft - amount ELSE 0
  IN IF left = 0
     THEN [loan EXCEPT !.principalLeft = left, !.isPaid = TRUE]
     ELSE [loan EXCEPT !.principalLeft = left, !.totalAmount = left,
                       !.nextPaymentDate = AddMonth(loan.nextPaymentDate)]

ApplyPayment_NeverPaid(loan, amount) ==
  LET left == IF loan.principalLeft - amount > 0 THEN loan.principalLeft - amount ELSE 0
  IN [loan EXCEPT !.principalLeft = left,
                  !.nextPaymentDate = AddMonth(loan.nextPaymentDate)]

\* loan.makePayment(amount), before its save()
ApplyPayment(loan, amount) ==
  LET left == IF loan.principalLeft - amount > 0 THEN loan.principalLeft - amount ELSE 0
  IN IF left = 0
     THEN [loan EXCEPT !.principalLeft = left, !.isPaid = TRUE]
     ELSE [loan EXCEPT !.principalLeft = left,
                       !.nextPaymentDate = AddMonth(loan.nextPaymentDate)]

\* new Date() > this.nextPaymentDate, for the instant now read from the
\* clock; a stored date is kept to the day and stands for its first instant
After(now, date) ==
  \/ DayNumber(now) > DayNumber(date)
  \/ DayNumber(now) = DayNumber(date) /\ now.ms > 0

isOverdue_IgnoresPaid(loan, now) == After(now, loan.nextPaymentDate)

isOverdue(loan, now) == ~loan.isPaid /\ After(now, loan.nextPaymentDate)

MsPerDay == 1000 * 3600 * 24

\* now is the clock read by the call of isOverdue, today the later reading;
\* timeDiff is (days between the two dates) * MsPerDay + today.ms
getDaysOverdue(loan, now, today) ==
  IF ~isOverdue(loan, now) THEN 0
  ELSE (DayNumber(today) - DayNumber(loan.nextPaymentDate)) + today.ms \div MsPerDay

\* ----------------------------------------------------------- authorization
\* the role in the token of an authenticated caller
RoleOf(user) ==
  IF user \in Customers THEN "USER"
  ELSE IF user \in Verifiers THEN "VERIFIER"
  ELSE IF user \in Admins THEN "ADMIN"
  ELSE "SUPER_ADMIN"

roleHierarchy(role) ==
  CASE role = "USER" -> 0
    [] role = "VERIFIER" -> 1
    [] role = "ADMIN" -> 2
    [] role = "SUPER_ADMIN" -> 3

hasPermission(userRole, requiredRole) ==
  roleHierarchy(userRole) >= roleHierarchy(requiredRole)

\* authorize(...allowedRoles): some allowed role is within the caller's reach
authorize(userRole, allowedRoles) ==
  \E role \in allowedRoles : hasPermission(userRole, role)

\* ------------------------------------------------------ createApplication
HasActiveApplication_PendingOnly(userId) ==
  \E a \in DOMAIN applications :
    applications[a].userId = userId /\ applications[a].status = PENDING

HasActiveApplication(userId) ==
  \E a \in DOMAIN applications :
    /\ applications[a].userId = userId
    /\ applications[a].status \in {PENDING, VERIFIED}

HasActiveLoan_Never(userId) == FALSE

HasActiveLoan(userId) ==
  \E l \in DOMAIN loans : loans[l].userId = userId /\ ~loans[l].isPaid

\* the number of requests in flight that run handler op
Running(op) == BagCardinality([q \in {x \in InFlight : x.op = op} |-> req[q]])

BeginCreate ==
  /\ Len(applications) + Running("createApplication") < MaxApps
  /\ \E u \in Customers, amount \in Amounts, tenure \in Tenures :
       Begin([Request EXCEPT !.op = "createApplication", !.pc = "findApplication",
                             !.caller = u, !.amount = amount, !.tenure = tenure])
  /\ UNCHANGED <<applications, loans, transactions>>

CreateFindApplication ==
  \E q \in InFlight :
    /\ At(q, "createApplication", "findApplication")
    /\ IF HasActiveApplication(q.caller)
       THEN Finish(q, sendError("You already have a pending application", 400))
       ELSE Goto(q, [q EXCEPT !.pc = "findLoan"])
    /\ UNCHANGED <<applications, loans, transactions>>

CreateFindLoan ==
  \E q \in InFlight :
    /\ At(q, "createApplication", "findLoan")
    /\ IF HasActiveLoan(q.caller)
       THEN Finish(q, sendError("You already have an active loan", 400))
       ELSE Goto(q, [q EXCEPT !.pc = "save"])
    /\ UNCHANGED <<applications, loans, transactions>>

CreateSave ==
  \E q \in InFlight :
    /\ At(q, "createApplication", "save")
    /\ applications' = Append(applications, NewApplication(q.caller, q.amount, q.tenure))
    /\ Finish(q, sendSuccess("Application submitted successfully", 201))
    /\ UNCHANGED <<loans, transactions>>

\* ------------------------------------------------------ verifyApplication
VerifyEdit_NotesOnly(app, q) ==
  [app EXCEPT !.verifierId = q.caller, !.verificationNotes = q.notes]

\* the assignments to the loaded document
VerifyEdit(app, q) ==
  LET e1 == [app EXCEPT !.status = IF q.status = VERIFIED THEN VERIFIED ELSE REJECTED,
                        !.verifierId = q.caller,
                        !.verificationNotes = q.notes]
  IN IF q.status = REJECTED
     THEN [e1 EXCEPT !.rejectionReason = q.rejectionReason]
     ELSE e1

\* rejectionReason is read only when status is REJECTED
BeginVerify ==
  /\ \E v \in Verifiers, id \in 1..MaxApps, status \in {VERIFIED, REJECTED},
        notes \in NotesIn, reason \in ReasonsIn :
       Begin([Request EXCEPT !.op = "verifyApplication", !.pc = "findById",
                             !.caller = v, !.id = id, !.status = status, !.notes = notes,
                             !.rejectionReason = IF status = REJECTED THEN reason ELSE None])
  /\ UNCHANGED <<applications, loans, transactions>>

VerifyFind ==
  \E q \in InFlight :
    /\ At(q, "verifyApplication", "findById")
    /\ IF q.id \notin DOMAIN applications
       THEN Finish(q, sendNotFound("Application not found"))
       ELSE IF ~canBeVerified(applications[q.id])
       THEN Finish(q, sendError("Application cannot be verified in its current state", 400))
       ELSE Goto(q, [q EXCEPT !.pc = "save", !.doc = applications[q.id]])
    /\ UNCHANGED <<applications, loans, transactions>>

VerifySave ==
  \E q \in InFlight :
    /\ At(q, "verifyApplication", "save")
    /\ applications' =
         [applications EXCEPT ![q.id] = SaveModified(@, q.doc, VerifyEdit(q.doc, q))]
    /\ Finish(q, sendSuccess("Application verified or rejected successfully", 200))
    /\ UNCHANGED <<loans, transactions>>

\* ----------------------------------------------------- approveApplication
MissingInterestRate_Never(interestRate) == FALSE

\* !interestRate
MissingInterestRate(interestRate) == interestRate = NoRate

\* the assignments to the loaded document
ApproveEdit(app, q) ==
  IF q.status = APPROVED
  THEN [app EXCEPT !.status = APPROVED, !.adminId = q.caller]
  ELSE [app EXCEPT !.status = REJECTED, !.adminId = q.caller,
                   !.rejectionReason = q.rejectionReason]

\* interestRate is read only when status is APPROVED, rejectionReason otherwise
BeginApprove ==
  /\ \E ad \in Admins, id \in 1..MaxApps, status \in {APPROVED, REJECTED},
        rate \in Rates \cup {NoRate}, reason \in ReasonsIn :
       /\ status = REJECTED => rate = NoRate
       /\ Begin([Request EXCEPT !.op = "approveApplication", !.pc = "findById",
                                !.caller = ad, !.id = id, !.status = status,
                                !.interestRate = rate,
                                !.rejectionReason = IF status = REJECTED THEN reason ELSE None])
  /\ UNCHANGED <<applications, loans, transactions>>

ApproveFind ==
  \E q \in InFlight :
    /\ At(q, "approveApplication", "findById")
    /\ IF q.id \notin DOMAIN applications
       THEN Finish(q, sendNotFound("Application not found"))
       ELSE IF ~canBeApproved(applications[q.id])
       THEN Finish(q, sendError("Application must be verified before it can be approved", 400))
       ELSE IF q.status = APPROVED /\ MissingInterestRate(q.interestRate)
       THEN Finish(q, sendError("Interest rate is required for approval", 400))
       ELSE Goto(q, [q EXCEPT !.pc = "saveApplication", !.doc = applications[q.id]])
    /\ UNCHANGED <<applications, loans, transactions>>

ApproveSaveApplication ==
  \E q \in InFlight :
    /\ At(q, "approveApplication", "saveApplication")
    /\ applications' =
         [applications EXCEPT ![q.id] = SaveModified(@, q.doc, ApproveEdit(q.doc, q))]
    /\ IF q.status = APPROVED
       THEN Goto(q, [q EXCEPT !.pc = "saveLoan"])
       ELSE Finish(q, sendSuccess("Application rejected successfully", 200))
    /\ UNCHANGED <<loans, transactions>>

ApproveSaveLoan ==
  \E q \in InFlight :
    /\ At(q, "approveApplication", "saveLoan")
    /\ \E now \in Dates :
         LET loan == NewLoan(q.id, q.doc, q.interestRate, now) IN
         IF ~LoanValid(loan) \/ DuplicateKey(q.id)
         THEN /\ Finish(q, sendError("Failed to process application", 500))
              /\ UNCHANGED loans
         ELSE /\ loans' = Append(loans, loan)
              /\ Finish(q, sendSuccess("Application approved and loan created successfully", 200))
    /\ UNCHANGED <<applications, transactions>>

\* ------------------------------------------------------------ makePayment
OwnsLoan_Anyone(loan, userId) == TRUE

\* loan.userId.toString() === userId
OwnsLoan(loan, userId) == loan.userId = userId

BeginPay ==
  /\ Len(transactions) + Running("makePayment") < MaxTxns
  /\ \E u \in Customers, id \in 1..MaxApps, amount \in PayAmounts :
       Begin([Request EXCEPT !.op = "makePayment", !.pc = "validate",
                             !.caller = u, !.id = id, !.amount = amount])
  /\ UNCHANGED <<applications, loans, transactions>>

\* validateRequest(payEMISchema): amount is at least 1
PayValidate ==
  \E q \in InFlight :
    /\ At(q, "makePayment", "validate")
    /\ IF q.amount < 100
       THEN Finish(q, sendError("Validation failed", 400))
       ELSE Goto(q, [q EXCEPT !.pc = "findById"])
    /\ UNCHANGED <<applications, loans, transactions>>

PayFind ==
  \E q \in InFlight :
    /\ At(q, "makePayment", "findById")
    /\ IF q.id \notin DOMAIN loans
       THEN Finish(q, sendNotFound("Loan not found"))
       ELSE LET loan == loans[q.id] IN
         IF ~OwnsLoan(loan, q.caller)
         THEN Finish(q, sendForbidden("You can only make payments for your own loans"))
         ELSE IF loan.isPaid
         THEN Finish(q, sendError("Loan is already fully paid", 400))
         ELSE IF q.amount <= 0
         THEN Finish(q, sendError("Payment amount must be positive", 400))
         ELSE IF q.amount > loan.principalLeft
         THEN Finish(q, sendError("Payment amount cannot exceed remaining principal", 400))
         ELSE Goto(q, [q EXCEPT !.pc = "saveTransaction", !.doc = loan])
    /\ UNCHANGED <<applications, loans, transactions>>

NewTransaction_Pending(loanId, amount) ==
  [loanId |-> loanId, amount |-> amount, transactionType |-> "EMI", status |-> "PENDING"]

\* new Transaction({ loanId, amount, transactionType: "EMI", status: "COMPLETED" })
NewTransaction(loanId, amount) ==
  [loanId |-> loanId, amount |-> amount, transactionType |-> "EMI", status |-> "COMPLETED"]

PaySaveTransaction ==
  \E q \in InFlight :
    /\ At(q, "makePayment", "saveTransaction")
    /\ transactions' = Append(transactions, NewTransaction(q.id, q.amount))
    /\ Goto(q, [q EXCEPT !.pc = "saveLoan", !.transaction = Len(transactions) + 1])
    /\ UNCHANGED <<applications, loans>>

PaySaveLoan ==
  \E q \in InFlight :
    /\ At(q, "makePayment", "saveLoan")
    /\ loans' = [loans EXCEPT ![q.id] = SaveModified(@, q.doc, ApplyPayment(q.doc, q.amount))]
    /\ Finish(q, sendSuccess("Payment processed successfully", 200))
    /\ UNCHANGED <<applications, transactions>>

\* loan.makePayment(amount) is rejected by the store (the update does not reach
\* the database): the catch block answers, and nothing is undone
PaySaveLoanFails ==
  \E q \in InFlight :
    /\ At(q, "makePayment", "saveLoan")
    /\ Finish(q, sendError("Failed to process payment", 500))
    /\ UNCHANGED <<applications, loans, transactions>>

\* ----------------------------------------------------- getPaymentSchedule
\* An amount of the schedule loop: the number whole + part / of, with
\* 0 <= part < of (whole is the floor of the amount, in cents).
Amount(cents) == [whole |-> cents, part |-> <<>>, of |-> <<1>>]

\* (x * loan.interestRate) / (12 * 100), r being the monthly rate a / b
TimesRate(x, r) ==
  LET q == (x.whole * r.a) \div r.b
      n == [top |-> BigAdd(BigScale(x.of, (x.whole * r.a) % r.b), BigScale(x.part, r.a)),
            of |-> BigScale(x.of, r.b)]
  IN IF BigLess(n.top, n.of)
     THEN [whole |-> q, part |-> n.top, of |-> n.of]
     ELSE [whole |-> q + 1, part |-> BigSub(n.top, n.of), of |-> n.of]

\* loan.emi - y
EmiMinus(emi, y) ==
  IF y.part = <<>>
  THEN [whole |-> emi - y.whole, part |-> <<>>, of |-> y.of]
  ELSE [whole |-> emi - y.whole - 1, part |-> BigSub(y.of, y.part), of |-> y.of]

\* x - y, where y counts in parts of x.of * k
Minus(x, y, k) ==
  LET xp == [part |-> BigScale(x.part, k)]
  IN IF BigLess(xp.part, y.part)
     THEN [whole |-> x.whole - y.whole - 1,
           part |-> BigSub(BigAdd(xp.part, y.of), y.part), of |-> y.of]
     ELSE [whole |-> x.whole - y.whole, part |-> BigSub(xp.part, y.part), of |-> y.of]

\* Math.round(x * 100) / 100
RoundAmount(x) ==
  IF BigLess(BigScale(x.part, 2), x.of) THEN x.whole ELSE x.whole + 1

\* (loan.totalAmount - loan.principalLeft) / loan.emi, the subtraction and the
\* division being those of doubles
PaidQuotient(loan) ==
  DoubleDiv(DoubleMinus(DoubleOfCents(loan.totalAmount), DoubleOfCents(loan.principalLeft)),
            DoubleOfCents(loan.emi))

\* the heuristic of the status column: i <= quotient, for the whole number i
\* and the largest whole number paid that is not above the quotient
InstallmentStatus(i, paid) == IF i <= paid THEN "PAID" ELSE "PENDING"

StartDate_Now(loan, now) == now

\* new Date(loan.approvalDate): the schedule starts at the approval of the
\* loan, whatever the time of the call
StartDate(loan, now) == loan.approvalDate

\* one pass of the loop body, on its variables
ScheduleRow(loan, v) ==
  LET currentDate == AddMonth(v.currentDate)
      interestComponent == TimesRate(v.remainingPrincipal, MonthlyRate(loan.interestRate))
      principalComponent == EmiMinus(loan.emi, interestComponent)
      remainingPrincipal ==
        Minus(v.remainingPrincipal, principalComponent, MonthlyRate(loan.interestRate).b)
      row == [installmentNumber |-> v.i,
              dueDate |-> currentDate,
              emiAmount |-> loan.emi,
              principalComponent |-> RoundAmount(principalComponent),
              interestComponent |-> RoundAmount(interestComponent),
              remainingPrincipal |-> IF RoundAmount(remainingPrincipal) > 0
                                     THEN RoundAmount(remainingPrincipal) ELSE 0,
              status |-> InstallmentStatus(v.i, v.paid)]
  IN [i |-> v.i + 1, currentDate |-> currentDate,
      remainingPrincipal |-> remainingPrincipal, schedule |-> Append(v.schedule, row),
      paid |-> v.paid]

RECURSIVE ScheduleLoop(_, _)
ScheduleLoop(loan, v) ==
  IF v.i <= loan.tenureMonths THEN ScheduleLoop(loan, ScheduleRow(loan, v)) ELSE v.schedule

\* the quotient of the status column is the same in every pass of the loop
ScheduleOf(loan, now) ==
  ScheduleLoop(loan, [i |-> 1, currentDate |-> StartDate(loan, now),
                      remainingPrincipal |-> Amount(loan.totalAmount), schedule |-> <<>>,
                      paid |-> DoubleFloor(PaidQuotient(loan))])

ScheduleRetrieved(id, loan, now) ==
  [statusCode |-> 200, message |-> "Payment schedule retrieved successfully",
   data |-> [loan |-> [id |-> id, totalAmount |-> loan.totalAmount, emi |-> loan.emi,
                       interestRate |-> loan.interestRate,
                       tenureMonths |-> loan.tenureMonths],
             schedule |-> ScheduleOf(loan, now)]]

BeginSchedule ==
  /\ \E u \in Customers \cup Verifiers \cup Admins, id \in 1..MaxApps :
       Begin([Request EXCEPT !.op = "getPaymentSchedule", !.pc = "canAccessLoan",
                             !.caller = u, !.id = id])
  /\ UNCHANGED <<applications, loans, transactions>>

\* the route's middleware: admins and customers pass, a verifier does not
ScheduleAccess ==
  \E q \in InFlight :
    /\ At(q, "getPaymentSchedule", "canAccessLoan")
    /\ IF q.caller \in Admins \cup Customers
       THEN Goto(q, [q EXCEPT !.pc = "findById"])
       ELSE Finish(q, sendForbidden("Access denied"))
    /\ UNCHANGED <<applications, loans, transactions>>

ScheduleFind ==
  \E q \in InFlight, now \in Clock :
    /\ At(q, "getPaymentSchedule", "findById")
    /\ IF q.id \notin DOMAIN loans
       THEN Finish(q, sendNotFound("Loan not found"))
       ELSE IF ~(q.caller \in Admins \/ (q.caller \in Customers /\ loans[q.id].userId = q.caller))
       THEN Finish(q, sendForbidden("Access denied"))
       ELSE Finish(q, ScheduleRetrieved(q.id, loans[q.id], now))
    /\ UNCHANGED <<applications, loans, transactions>>

\* -------------------------------------------------------------- customerOnly
\* a request of any authenticated caller arrives at a route behind customerOnly
ArriveCreate ==
  /\ Len(applications) + Running("createApplication") < MaxApps
  /\ \E u \in Customers \cup Verifiers \cup Admins \cup SuperAdmins,
        amount \in Amounts, tenure \in Tenures :
       Begin([Request EXCEPT !.op = "createApplication", !.pc = "customerOnly",
                             !.caller = u, !.amount = amount, !.tenure = tenure])
  /\ UNCHANGED <<applications, loans, transactions>>

ArrivePay ==
  /\ Len(transactions) + Running("makePayment") < MaxTxns
  /\ \E u \in Customers \cup Verifiers \cup Admins \cup SuperAdmins,
        id \in 1..MaxApps, amount \in PayAmounts :
       Begin([Request EXCEPT !.op = "makePayment", !.pc = "customerOnly",
                             !.caller = u, !.id = id, !.amount = amount])
  /\ UNCHANGED <<applications, loans, transactions>>

\* customerOnly = authorize(UserRole.USER), then the next middleware or handler
CustomerOnly ==
  \E q \in InFlight :
    /\ q.pc = "customerOnly"
    /\ IF authorize(RoleOf(q.caller), {"USER"})
       THEN Goto(q, [q EXCEPT !.pc = IF q.op = "createApplication"
                                     THEN "findApplication" ELSE "validate"])
       ELSE Finish(q, sendForbidden("Insufficient permissions"))
    /\ UNCHANGED <<applications, loans, transactions>>

\* --------------------------------------------------------- specifications
Init ==
  /\ applications = <<>>
  /\ loans = <<>>
  /\ transactions = <<>>
  /\ req = EmptyBag
  /\ sent = NoResp

ApplicationArrive == BeginCreate \/ BeginVerify \/ BeginApprove

ApplicationStep ==
  \/ CreateFindApplication \/ CreateFindLoan \/ CreateSave
  \/ VerifyFind \/ VerifySave
  \/ ApproveFind \/ ApproveSaveApplication \/ ApproveSaveLoan

LoanStep == PayValidate \/ PayFind \/ PaySaveTransaction \/ PaySaveLoan

\* the application workflow: up to MaxReq requests of customers, verifiers and
\* admins are served concurrently and interleave at every await
Next == ApplicationArrive \/ ApplicationStep

Spec == Init /\ [][Next]_vars

\* all handlers, one request at a time
SeqNext ==
  \/ req = EmptyBag /\ BeginCreate
  \/ req = EmptyBag /\ BeginVerify
  \/ req = EmptyBag /\ BeginApprove
  \/ req = EmptyBag /\ BeginPay
  \/ ApplicationStep \/ LoanStep

SeqSpec == Init /\ [][SeqNext]_vars

\* the loan ledger: applications are handled one request at a time, and up to
\* MaxReq makePayment requests are served concurrently and interleave at every
\* await
PayNext ==
  \/ req = EmptyBag /\ BeginCreate
  \/ req = EmptyBag /\ BeginVerify
  \/ req = EmptyBag /\ BeginApprove
  \/ Running("makePayment") = BagCardinality(req) /\ BeginPay
  \/ ApplicationStep \/ LoanStep

PaySpec == Init /\ [][PayNext]_vars

\* all handlers, one request at a time, with a store that can fail the loan
\* update of a payment
FaultNext == SeqNext \/ PaySaveLoanFails

FaultSpec == Init /\ [][FaultNext]_vars

\* the schedule of an approved loan of customer u1, on which nothing, a first
\* installment or the whole principal has been paid in one payment, read by up
\* to MaxReq concurrent requests
SchedInit ==
  \E l \in ScheduleLoans, k \in PaidInstallments, whole \in BOOLEAN :
    LET app == [NewApplication("u1", l[1], l[3]) EXCEPT
                  !.status = APPROVED, !.verifierId = "v1",
                  !.verificationNotes = "notes", !.adminId = "a1"]
        loan == [fresh |-> NewLoan(1, app, l[2], [m |-> 0, d |-> 31])]
        paid == IF whole THEN loan.fresh.totalAmount ELSE k * loan.fresh.emi
    IN /\ whole => k = 0
       /\ applications = <<app>>
       /\ loans = <<IF paid = 0 THEN loan.fresh ELSE ApplyPayment(loan.fresh, paid)>>
       /\ transactions = IF paid = 0 THEN <<>> ELSE <<NewTransaction(1, paid)>>
       /\ req = EmptyBag
       /\ sent = NoResp

SchedNext == BeginSchedule \/ ScheduleAccess \/ ScheduleFind

SchedSpec == SchedInit /\ [][SchedNext]_vars

\* all handlers, one request at a time, the routes behind customerOnly being
\* called by customers, verifiers, admins and super admins
GateNext ==
  \/ req = EmptyBag /\ ArriveCreate
  \/ req = EmptyBag /\ ArrivePay
  \/ req = EmptyBag /\ BeginVerify
  \/ req = EmptyBag /\ BeginApprove
  \/ CustomerOnly \/ ApplicationStep \/ LoanStep

GateSpec == Init /\ [][GateNext]_vars

\* the due date of a loan: an application of customer u1 has been approved on
\* one of ApprovalDates, and payments are made one request at a time
DueInit ==
  \E amount \in Amounts, tenure \in Tenures, rate \in Rates, now \in ApprovalDates :
    LET app == [NewApplication("u1", amount, tenure) EXCEPT
                  !.status = APPROVED, !.verifierId = "v1",
                  !.verificationNotes = "notes", !.adminId = "a1"]
    IN /\ applications = <<app>>
       /\ loans = <<NewLoan(1, app, rate, now)>>
       /\ transactions = <<>>
       /\ req = EmptyBag
       /\ sent = NoResp

DueNext == (req = EmptyBag /\ BeginPay) \/ LoanStep

DueSpec == DueInit /\ [][DueNext]_vars

\* isOverdue and getDaysOverdue called on a loan document
CallIsOverdue ==
  \E q \in InFlight :
    /\ At(q, "isOverdue", "call")
    /\ Goto(q, [q EXCEPT !.pc = "return", !.doc = isOverdue(loans[q.id], q.now)])
    /\ UNCHANGED <<applications, loans, transactions>>

CallGetDaysOverdue ==
  \E q \in InFlight :
    /\ At(q, "getDaysOverdue", "call")
    /\ Goto(q, [q EXCEPT !.pc = "return",
                         !.doc = getDaysOverdue(loans[q.id], q.now, q.today)])
    /\ UNCHANGED <<applications, loans, transactions>>

\* a loan of customer u1, unpaid, partly paid or paid, and one call of either
\* method; the clock does not run backwards between the two readings
OverdueInit ==
  \E amount \in Amounts, tenure \in Tenures, rate \in Rates, approved \in ApprovalDates,
     paid \in PaidBefore, op \in {"isOverdue", "getDaysOverdue"},
     now \in Instants, today \in Instants :
    LET app == [NewApplication("u1", amount, tenure) EXCEPT
                  !.status = APPROVED, !.verifierId = "v1",
                  !.verificationNotes = "notes", !.adminId = "a1"]
        loan == [fresh |-> NewLoan(1, app, rate, approved)]
    IN /\ paid <= amount
       /\ ~After(now, today) \/ (DayNumber(now) = DayNumber(today) /\ now.ms <= today.ms)
       /\ op = "isOverdue" => today = now
       /\ applications = <<app>>
       /\ loans = <<IF paid = 0 THEN loan.fresh ELSE ApplyPayment(loan.fresh, paid)>>
       /\ transactions = IF paid = 0 THEN <<>> ELSE <<NewTransaction(1, paid)>>
       /\ req = SetToBag({[Request EXCEPT !.op = op, !.pc = "call", !.caller = "u1",
                                          !.id = 1, !.now = now, !.today = today]})
       /\ sent = NoResp

OverdueNext == CallIsOverdue \/ CallGetDaysOverdue

OverdueSpec == OverdueInit /\ [][OverdueNext]_vars

\* calculateEMI called on a loan document with arguments of the three sets
CallEMI ==
  \E q \in InFlight :
    /\ At(q, "calculateEMI", "call")
    /\ Goto(q, [q EXCEPT !.pc = "return",
                         !.doc = calculateEMI(q.amount, q.interestRate, q.tenure)])
    /\ UNCHANGED <<applications, loans, transactions>>

EmiInit ==
  /\ applications = <<>>
  /\ loans = <<>>
  /\ transactions = <<>>
  /\ \E principal \in EmiPrincipals, rate \in EmiRates, tenure \in EmiTenures :
       req = SetToBag({[Request EXCEPT !.op = "calculateEMI", !.pc = "call",
                                       !.amount = principal, !.interestRate = rate,
                                       !.tenure = tenure]})
  /\ sent = NoResp

EmiSpec == EmiInit /\ [][CallEMI]_vars

\* a verifier sends a request about application id while it is PENDING
VerifierActs(id) ==
  /\ req = EmptyBag /\ BeginVerify
  /\ id \in DOMAIN applications /\ applications[id].status = PENDING
  /\ \E q \in BagToSet(req') : q.id = id

\* an admin sends a valid request about application id while it is VERIFIED:
\* a rejection, or an approval with an interest rate
AdminActs(id) ==
  /\ req = EmptyBag /\ BeginApprove
  /\ id \in DOMAIN applications /\ applications[id].status = VERIFIED
  /\ \E q \in BagToSet(req') :
       q.id = id /\ (q.status = APPROVED => ~MissingInterestRate(q.interestRate))

\* the application workflow, one request at a time
LiveNext ==
  \/ req = EmptyBag /\ BeginCreate
  \/ req = EmptyBag /\ BeginVerify
  \/ req = EmptyBag /\ BeginApprove
  \/ ApplicationStep

\* every handler runs to its response, so that the server is idle again and
\* again; verifiers keep acting on PENDING applications and admins on VERIFIED
\* ones
LiveSpec ==
  /\ Init /\ [][LiveNext]_vars
  /\ []<>(req = EmptyBag)
  /\ \A id \in 1..MaxApps : SF_vars(VerifierActs(id)) /\ SF_vars(AdminActs(id))

\* ------------------------------------------------------------------ claims
\* request q takes a step
Stepped(q) == CopiesIn(q, req') < CopiesIn(q, req)

\* request q takes its last step
Returned(q) == req' = req (-) SetToBag({q})

LoansOf(a) == {l \in DOMAIN loans : loans[l].applicationId = a}

ActiveApplicationsOf(u) ==
  {a \in DOMAIN applications :
     applications[a].userId = u /\ applications[a].status \in {PENDING, VERIFIED}}

UnpaidLoansOf(u) == {l \in DOMAIN loans : loans[l].userId = u /\ ~loans[l].isPaid}

PendingApplicationExists == sendError("You already have a pending application", 400)
ActiveLoanExists == sendError("You already have an active loan", 400)
CannotBeVerified == sendError("Application cannot be verified in its current state", 400)
MustBeVerified == sendError("Application must be verified before it can be approved", 400)
InterestRateRequired == sendError("Interest rate is required for approval", 400)

\* the responses that tell the caller of a conflict
IsConflictError(res) ==
  res.statusCode = 409 \/ res \in {PendingApplicationExists, ActiveLoanExists}

\* C1: in every execution, interleaved verify and approve requests included, an
\* application that is APPROVED or REJECTED never changes status again, and a
\* VERIFIED application never returns to PENDING.
C1_TerminalIsFinal ==
  [][\A a \in DOMAIN applications :
       /\ applications[a].status \in {APPROVED, REJECTED}
            => applications'[a].status = applications[a].status
       /\ applications[a].status = VERIFIED => applications'[a].status # PENDING]_vars

TransitionGraph ==
  {<<PENDING, VERIFIED>>, <<PENDING, REJECTED>>,
   <<VERIFIED, APPROVED>>, <<VERIFIED, REJECTED>>}

\* C2: with requests served one at a time, every change of an application's
\* status is an edge of the transition graph, a new application starts PENDING,
\* and no application disappears.
C2_OnlyGraphEdges ==
  [][/\ \A a \in DOMAIN applications :
          /\ a \in DOMAIN applications'
          /\ \/ applications'[a].status = applications[a].status
             \/ <<applications[a].status, applications'[a].status>> \in TransitionGraph
     /\ \A a \in DOMAIN applications' \ DOMAIN applications :
          applications'[a].status = PENDING]_vars

\* an application approved and another one rejected by the admin after it was verified
C2_Witness ==
  /\ \E a \in DOMAIN applications : applications[a].status = APPROVED
  /\ \E a \in DOMAIN applications :
       applications[a].status = REJECTED /\ applications[a].adminId # None

\* C3: approval is all-or-nothing: whenever no approveApplication request is in
\* progress, an application is APPROVED if and only if exactly one Loan
\* references it.
C3_ApprovedIffOneLoan ==
  Running("approveApplication") = 0 =>
    \A a \in DOMAIN applications :
      applications[a].status = APPROVED <=> Cardinality(LoansOf(a)) = 1

\* C4: in every reachable state at most one Loan references an application.
C4_OneLoanPerApplication ==
  \A l1, l2 \in DOMAIN loans :
    loans[l1].applicationId = loans[l2].applicationId => l1 = l2

\* a second approval passed the guard and its Loan was refused by the unique index
C4_Witness ==
  /\ sent = sendError("Failed to process application", 500)
  /\ \E a \in DOMAIN applications : Cardinality(LoansOf(a)) = 1

\* C5: of two racing approvals only the one that creates the Loan reports
\* success, and the one that loses the uniqueness conflict on the Loan gets a
\* conflict response.
C5_LoserGetsConflict ==
  [][\A q \in InFlight :
       (q.op = "approveApplication" /\ q.pc = "saveLoan" /\ Stepped(q)) =>
         IF LoansOf(q.id) # {}
         THEN IsConflictError(sent')
         ELSE sent'.statusCode = 200 /\ Len(loans') = Len(loans) + 1]_vars

\* C6: in every reachable state, interleaved createApplication requests of the
\* same customer included, a customer has at most one PENDING or VERIFIED
\* application.
C6_OneActiveApplication ==
  \A u \in Customers : Cardinality(ActiveApplicationsOf(u)) <= 1

\* C7: with requests served one at a time, a customer never has two unpaid
\* loans, nor an unpaid loan together with a PENDING or VERIFIED application.
C7_OneUnpaidLoan ==
  \A u \in Customers :
    /\ Cardinality(UnpaidLoansOf(u)) <= 1
    /\ ~(UnpaidLoansOf(u) # {} /\ ActiveApplicationsOf(u) # {})

\* a customer who paid off a first loan and holds a second, unpaid one
C7_Witness ==
  \E u \in Customers : \E l1, l2 \in DOMAIN loans :
    /\ loans[l1].userId = u /\ loans[l1].isPaid
    /\ loans[l2].userId = u /\ ~loans[l2].isPaid

\* C8: with requests served one at a time, createApplication by a customer who
\* has a PENDING or VERIFIED application or an unpaid loan changes no
\* application and no loan, never reaches its save, and ends with the conflict
\* error ("pending application" first, "active loan" otherwise).
C8_ConflictCreatesNothing ==
  [][\A q \in InFlight :
       (/\ q.op = "createApplication" /\ Stepped(q)
        /\ ActiveApplicationsOf(q.caller) # {} \/ UnpaidLoansOf(q.caller) # {}) =>
         /\ UNCHANGED <<applications, loans>>
         /\ IF Returned(q)
            THEN /\ IsConflictError(sent')
                 /\ sent' = IF ActiveApplicationsOf(q.caller) # {}
                            THEN PendingApplicationExists ELSE ActiveLoanExists
            ELSE /\ q.pc = "findApplication"
                 /\ ActiveApplicationsOf(q.caller) = {}]_vars

\* a customer whose only application was approved was just refused for the unpaid loan
C8_Witness ==
  /\ sent = ActiveLoanExists
  /\ Len(applications) = 1 /\ applications[1].status = APPROVED
  /\ UnpaidLoansOf(applications[1].userId) # {}

\* C9: verifyApplication on an application that is not PENDING, and
\* approveApplication on one that is not VERIFIED, are answered with the
\* invalid-transition error and change no application and no loan.
C9_ForbiddenTransitionChangesNothing ==
  [][\A q \in InFlight :
       (q.pc = "findById" /\ q.id \in DOMAIN applications /\ Stepped(q)) =>
         /\ (q.op = "verifyApplication" /\ applications[q.id].status # PENDING) =>
              /\ Returned(q) /\ sent' = CannotBeVerified
              /\ UNCHANGED <<applications, loans>>
         /\ (q.op = "approveApplication" /\ applications[q.id].status # VERIFIED) =>
              /\ Returned(q) /\ sent' = MustBeVerified
              /\ UNCHANGED <<applications, loans>>]_vars

\* approveApplication was just refused on the only application, which is REJECTED
C9_Witness ==
  /\ sent = MustBeVerified
  /\ Len(applications) = 1 /\ applications[1].status = REJECTED
  /\ loans = <<>>

\* C10: approveApplication(APPROVED) without interestRate on a VERIFIED
\* application is answered with the missing-interest-rate error; the application
\* stays as it was (VERIFIED, its adminId untouched) and no Loan is created.
C10_MissingRateChangesNothing ==
  [][\A q \in InFlight :
       (/\ q.op = "approveApplication" /\ q.pc = "findById" /\ Stepped(q)
        /\ q.status = APPROVED /\ q.interestRate = NoRate
        /\ q.id \in DOMAIN applications
        /\ applications[q.id].status = VERIFIED) =>
         /\ Returned(q) /\ sent' = InterestRateRequired
         /\ applications'[q.id].status = VERIFIED
         /\ UNCHANGED <<applications, loans>>]_vars

\* the approval of the only application, VERIFIED, was just refused for its missing rate
C10_Witness ==
  /\ sent = InterestRateRequired
  /\ Len(applications) = 1
  /\ applications[1].status = VERIFIED /\ applications[1].adminId = None
  /\ loans = <<>>

\* C11: in every execution, concurrent verify and approve requests on the same
\* application included, verifierId and verificationNotes never change once a
\* verifier is recorded, and adminId never changes once an admin is recorded.
C11_ReviewerFieldsImmutable ==
  [][\A a \in DOMAIN applications :
       /\ applications[a].verifierId # None =>
            /\ applications'[a].verifierId = applications[a].verifierId
            /\ applications'[a].verificationNotes = applications[a].verificationNotes
       /\ applications[a].adminId # None =>
            applications'[a].adminId = applications[a].adminId]_vars

\* C12: in every reachable state, interleaved makePayment requests on the same
\* loan included, a loan is marked paid if and only if nothing of its principal
\* is left.
C12_PaidIffNothingLeft ==
  \A l \in DOMAIN loans : loans[l].isPaid <=> loans[l].principalLeft = 0

\* the amounts of the COMPLETED EMI transactions of loan l among the first n
RECURSIVE CompletedEMI(_, _)
CompletedEMI(l, n) ==
  IF n = 0 THEN 0
  ELSE CompletedEMI(l, n - 1)
       + (IF /\ transactions[n].loanId = l
             /\ transactions[n].transactionType = "EMI"
             /\ transactions[n].status = "COMPLETED"
          THEN transactions[n].amount ELSE 0)

\* C13: whenever no makePayment request is in progress, totalAmount minus the
\* COMPLETED EMI transactions of a loan equals its principalLeft, interleaved
\* payments on the same loan included.
C13_LedgerConsistent ==
  Running("makePayment") = 0 =>
    \A l \in DOMAIN loans :
      loans[l].totalAmount - CompletedEMI(l, Len(transactions)) = loans[l].principalLeft

PaymentProcessed == sendSuccess("Payment processed successfully", 200)
LoanAlreadyPaid == sendError("Loan is already fully paid", 400)
AmountNotPositive == sendError("Payment amount must be positive", 400)
AmountExceedsPrincipal == sendError("Payment amount cannot exceed remaining principal", 400)
ValidationFailed == sendError("Validation failed", 400)
NotYourLoan == sendForbidden("You can only make payments for your own loans")
PaymentFailed == sendError("Failed to process payment", 500)

\* C14: whatever payments are accepted on a loan, its principalLeft never
\* increases, is never negative and never exceeds totalAmount.
C14_PrincipalLeftBounded ==
  [][\A l \in DOMAIN loans' :
       /\ 0 <= loans'[l].principalLeft
       /\ loans'[l].principalLeft <= loans'[l].totalAmount
       /\ l \in DOMAIN loans => loans'[l].principalLeft <= loans[l].principalLeft]_vars

\* C15: with payments applied one at a time, a loan starts unpaid, becomes paid
\* exactly in the step that brings its principalLeft to 0, and once paid stays
\* paid.
C15_PaidExactlyAtZero ==
  [][\A l \in DOMAIN loans' :
       IF l \notin DOMAIN loans
       THEN ~loans'[l].isPaid /\ loans'[l].principalLeft > 0
       ELSE /\ loans[l].isPaid => loans'[l].isPaid
            /\ (~loans[l].isPaid /\ loans'[l].isPaid)
                 <=> (loans[l].principalLeft > 0 /\ loans'[l].principalLeft = 0)]_vars

\* a loan paid off by a second payment, after a first one that left it unpaid
C15_Witness ==
  /\ sent = PaymentProcessed
  /\ \E l \in DOMAIN loans :
       /\ loans[l].isPaid /\ loans[l].principalLeft = 0
       /\ Len(transactions) = 2
       /\ \A t \in DOMAIN transactions :
            transactions[t].loanId = l /\ transactions[t].amount < loans[l].totalAmount

\* C16: a makePayment request with a non-positive amount is refused by
\* validation; one by a caller who does not own the loan is refused as
\* forbidden; the owner's request on a paid loan is refused as already paid; the
\* owner's request for more than principalLeft is refused; and in each case no
\* Transaction is created and no loan changes.
C16_RefusedPaymentChangesNothing ==
  [][\A q \in InFlight :
       (q.op = "makePayment" /\ Stepped(q)) =>
         /\ (q.pc = "validate" /\ q.amount <= 0) =>
              /\ Returned(q) /\ sent' \in {ValidationFailed, AmountNotPositive}
              /\ UNCHANGED <<loans, transactions>>
         /\ (q.pc = "findById" /\ q.id \in DOMAIN loans) =>
              LET loan == loans[q.id] IN
              /\ loan.userId # q.caller =>
                   /\ Returned(q) /\ sent' = NotYourLoan
                   /\ UNCHANGED <<loans, transactions>>
              /\ (loan.userId = q.caller /\ loan.isPaid) =>
                   /\ Returned(q) /\ sent' = LoanAlreadyPaid
                   /\ UNCHANGED <<loans, transactions>>
              /\ (loan.userId = q.caller /\ ~loan.isPaid /\ q.amount > loan.principalLeft) =>
                   /\ Returned(q) /\ sent' = AmountExceedsPrincipal
                   /\ UNCHANGED <<loans, transactions>>]_vars

\* the owner of a loan that one payment paid off was just refused a further payment
C16_Witness ==
  /\ sent = LoanAlreadyPaid
  /\ Len(transactions) = 1
  /\ \E l \in DOMAIN loans : loans[l].isPaid /\ transactions[1].loanId = l

\* C17: a makePayment request that ends with success has recorded its
\* Transaction and updated the loan, and one that ends with an error has changed
\* no loan and leaves no COMPLETED Transaction of its own in the ledger.
C17_PaymentAllOrNothing ==
  [][\A q \in InFlight :
       (q.op = "makePayment" /\ Returned(q)) =>
         IF sent'.statusCode = 200
         THEN /\ q.transaction \in DOMAIN transactions'
              /\ transactions'[q.transaction].status = "COMPLETED"
              /\ loans'[q.id].principalLeft = loans[q.id].principalLeft - q.amount
         ELSE /\ UNCHANGED loans
              /\ q.transaction \in DOMAIN transactions' =>
                   transactions'[q.transaction].status # "COMPLETED"]_vars

ScheduleRetrievedMessage == "Payment schedule retrieved successfully"

\* C18: a step of getPaymentSchedule changes no application, loan or
\* transaction, and a call answered right after another call for the same
\* loan, with nothing in between, returns the same loan summary and the same
\* schedule.
C18_ScheduleReadOnlyIdempotent ==
  [][(\E q \in InFlight : q.op = "getPaymentSchedule" /\ Stepped(q)) =>
       /\ UNCHANGED <<applications, loans, transactions>>
       /\ (/\ sent.message = ScheduleRetrievedMessage
           /\ sent'.message = ScheduleRetrievedMessage
           /\ sent.data.loan.id = sent'.data.loan.id) => sent'.data = sent.data]_vars

\* a schedule with a paid installment has been returned while a second call
\* for the same loan, by another caller, is about to be answered
C18_Witness ==
  /\ sent.message = ScheduleRetrievedMessage
  /\ \E i \in DOMAIN sent.data.schedule : sent.data.schedule[i].status = "PAID"
  /\ \E i \in DOMAIN sent.data.schedule : sent.data.schedule[i].status = "PENDING"
  /\ \E q \in InFlight : /\ At(q, "getPaymentSchedule", "findById")
                         /\ q.id = sent.data.loan.id
                         /\ q.caller \in Admins

RECURSIVE PrincipalRepaid(_, _)
\* the sum of principalComponent over the first n rows of a schedule
PrincipalRepaid(schedule, n) ==
  IF n = 0 THEN 0 ELSE PrincipalRepaid(schedule, n - 1) + schedule[n].principalComponent

\* C19: the schedule returned for a loan that has not been paid on has
\* tenureMonths rows whose principalComponent values add up to totalAmount,
\* give or take one cent per row.
C19_ScheduleRepaysPrincipal ==
  (/\ sent.message = ScheduleRetrievedMessage
   /\ loans[sent.data.loan.id].principalLeft = loans[sent.data.loan.id].totalAmount)
  => LET loan == sent.data.loan
         repaid == PrincipalRepaid(sent.data.schedule, Len(sent.data.schedule))
     IN /\ Len(sent.data.schedule) = loan.tenureMonths
        /\ repaid - loan.totalAmount <= loan.tenureMonths
        /\ loan.totalAmount - repaid <= loan.tenureMonths

\* calculateEMI has returned to call q
EmiReturned(q) == q \in InFlight /\ q.op = "calculateEMI" /\ q.pc = "return"

\* the value returned to q is not above the value for a higher rate and not
\* below the value for a longer tenure
EmiMonotone(q) ==
  /\ \A rate \in EmiRates :
       rate > q.interestRate => calculateEMI(q.amount, rate, q.tenure) >= q.doc
  /\ \A tenure \in EmiTenures :
       tenure > q.tenure => calculateEMI(q.amount, q.interestRate, tenure) <= q.doc

CalendarMonthAfter(date) ==
  [m |-> date.m + 1,
   d |-> IF date.d <= DaysInMonth(date.m + 1) THEN date.d ELSE DaysInMonth(date.m + 1)]

\* C21: the only step that adds a loan is the loan save of an approval with
\* status APPROVED; the loan it adds has principalLeft = totalAmount = the
\* application's amount, the application's tenure and owner, the supplied
\* rate, emi = calculateEMI(amount, rate, tenure), isPaid = FALSE and a
\* nextPaymentDate one calendar month after its approvalDate.  No step of
\* verifyApplication or of a rejecting approveApplication adds a loan.
C21_LoanCreatedFromApplication ==
  [][/\ \A q \in InFlight :
          (Stepped(q) /\ (q.op = "verifyApplication" \/ q.status = REJECTED))
            => loans' = loans
     /\ Len(loans') > Len(loans) =>
          \E q \in InFlight :
            LET app == applications[q.id]
                loan == loans'[Len(loans')]
            IN /\ Stepped(q) /\ At(q, "approveApplication", "saveLoan")
               /\ q.status = APPROVED
               /\ loans' = Append(loans, loan)
               /\ loan.applicationId = q.id
               /\ loan.principalLeft = app.amount /\ loan.totalAmount = app.amount
               /\ loan.tenureMonths = app.tenure
               /\ loan.userId = app.userId
               /\ loan.interestRate = q.interestRate
               /\ loan.emi = calculateEMI(app.amount, q.interestRate, app.tenure)
               /\ loan.isPaid = FALSE
               /\ loan.nextPaymentDate = CalendarMonthAfter(loan.approvalDate)]_vars

\* k calendar months after a date
CalendarMonthsAfter(date, k) ==
  [m |-> date.m + k,
   d |-> IF date.d <= DaysInMonth(date.m + k) THEN date.d ELSE DaysInMonth(date.m + k)]

\* the accepted payments recorded for loan l
PaymentsOf(l) == {t \in DOMAIN transactions : transactions[t].loanId = l}

\* C22: an accepted payment that leaves principalLeft > 0 moves nextPaymentDate
\* to one calendar month later, whatever its amount, and the payment that
\* brings principalLeft to 0 leaves it as it is; so an unpaid loan with k
\* accepted payments and no payment in progress has the nextPaymentDate of
\* its creation plus k calendar months.
C22_DueDateAdvancesByMonth ==
  [][/\ \A q \in InFlight :
          (Stepped(q) /\ q.op = "makePayment" /\ sent' = PaymentProcessed) =>
            loans'[q.id].nextPaymentDate =
              IF loans'[q.id].principalLeft > 0
              THEN CalendarMonthAfter(loans[q.id].nextPaymentDate)
              ELSE loans[q.id].nextPaymentDate
     /\ \A l \in DOMAIN loans :
          (req = EmptyBag /\ ~loans[l].isPaid) =>
            loans[l].nextPaymentDate =
              CalendarMonthsAfter(AddMonth(loans[l].approvalDate), Cardinality(PaymentsOf(l)))]_vars

FixedLoanFields ==
  {"emi", "totalAmount", "interestRate", "tenureMonths", "approvalDate",
   "applicationId", "userId"}

\* C23: no step removes a loan or changes the emi, totalAmount, interestRate,
\* tenureMonths, approvalDate, applicationId or userId of a loan, and the only
\* step that changes a loan at all is the loan save of a makePayment request
\* for that loan; totalAmount and userId are those of the loan's application.
C23_OnlyPaymentsChangeLoans ==
  [][/\ Len(loans') >= Len(loans)
     /\ \A l \in DOMAIN loans :
          /\ \A f \in FixedLoanFields : loans'[l][f] = loans[l][f]
          /\ loans'[l] # loans[l] =>
               \E q \in InFlight :
                 Stepped(q) /\ At(q, "makePayment", "saveLoan") /\ q.id = l
          /\ loans[l].totalAmount = applications[loans[l].applicationId].amount
          /\ loans[l].userId = applications[loans[l].applicationId].userId]_vars

\* a payment has changed the principalLeft and the nextPaymentDate of a loan
\* while another payment on the same loan is in progress
C23_Witness ==
  \E l \in DOMAIN loans :
    /\ loans[l].principalLeft < loans[l].totalAmount
    /\ loans[l].nextPaymentDate # AddMonth(loans[l].approvalDate)
    /\ \E q \in InFlight : At(q, "makePayment", "saveLoan") /\ q.id = l

\* C24: a step leaves the transactions as they are or appends one Transaction;
\* a Transaction is appended only by the transaction save of a makePayment
\* request and carries its loan, its amount, type EMI and status COMPLETED;
\* a payment that is accepted has added exactly that one Transaction.
C24_LedgerAppendOnly ==
  [][/\ \/ transactions' = transactions
        \/ \E q \in InFlight :
             /\ Stepped(q) /\ At(q, "makePayment", "saveTransaction")
             /\ transactions' =
                  Append(transactions,
                         [loanId |-> q.id, amount |-> q.amount,
                          transactionType |-> "EMI", status |-> "COMPLETED"])
     /\ \A q \in InFlight :
          (Stepped(q) /\ q.op = "makePayment" /\ sent' = PaymentProcessed) =>
            /\ transactions' = transactions
            /\ q.transaction \in DOMAIN transactions
            /\ transactions[q.transaction].loanId = q.id
            /\ transactions[q.transaction].amount = q.amount
            /\ \A p \in InFlight :
                 (p.op = "makePayment" /\ p.transaction = q.transaction) =>
                   (p = q /\ CopiesIn(q, req) = 1)]_vars

\* the ledger holds the Transaction of an accepted payment and the one of a
\* second payment on the same loan that is still in progress
C24_Witness ==
  /\ sent = PaymentProcessed
  /\ Len(transactions) = 2
  /\ transactions[1].loanId = transactions[2].loanId
  /\ \E q \in InFlight : At(q, "makePayment", "saveLoan") /\ q.transaction = 2

\* C25: isOverdue returns TRUE exactly when the loan is not paid and the
\* clock is past nextPaymentDate, so never for a paid loan; getDaysOverdue
\* returns 0 when the loan is not overdue, and otherwise the number n >= 0 of
\* whole days from nextPaymentDate to the clock.
C25_OverdueAndDays ==
  \A q \in InFlight :
    LET loan == loans[q.id]
        due == DayNumber(loan.nextPaymentDate)
    IN /\ (q.op = "isOverdue" /\ q.pc = "return") =>
            /\ q.doc = (~loan.isPaid /\ After(q.now, loan.nextPaymentDate))
            /\ loan.isPaid => q.doc = FALSE
       /\ (q.op = "getDaysOverdue" /\ q.pc = "return") =>
            /\ q.doc >= 0
            /\ (loan.isPaid \/ ~After(q.now, loan.nextPaymentDate)) => q.doc = 0
            /\ (~loan.isPaid /\ After(q.now, loan.nextPaymentDate)) =>
                 /\ due + q.doc <= DayNumber(q.today)
                 /\ DayNumber(q.today) < due + q.doc + 1

\* getDaysOverdue has returned a positive number of days for an unpaid loan
C25_Witness ==
  \E q \in InFlight :
    /\ q.op = "getDaysOverdue" /\ q.pc = "return"
    /\ ~loans[q.id].isPaid
    /\ q.doc > 0

\* C26: in a returned schedule row i is PAID exactly when i is at most the
\* whole part of (totalAmount - principalLeft) / emi, that is when i * emi <=
\* totalAmount - principalLeft, and PENDING otherwise; so no PAID row follows
\* a PENDING one.
C26_PaidRowsArePrefix ==
  sent.message = ScheduleRetrievedMessage =>
    LET loan == loans[sent.data.loan.id]
        rows == sent.data.schedule
    IN /\ \A i \in DOMAIN rows :
            /\ rows[i].status \in {"PAID", "PENDING"}
            /\ rows[i].status = "PAID" <=>
                 i * loan.emi <= loan.totalAmount - loan.principalLeft
       /\ \A i, j \in DOMAIN rows :
            (i < j /\ rows[j].status = "PAID") => rows[i].status = "PAID"

InsufficientPermissions == sendForbidden("Insufficient permissions")

\* C27: a request of a verifier, an admin or a super admin to a route behind
\* customerOnly is answered Forbidden by the middleware, changes nothing, and
\* never reaches the handler.
C27_CustomerRoutesAdmitCustomersOnly ==
  [][\A q \in InFlight :
       (Stepped(q) /\ q.pc = "customerOnly" /\ RoleOf(q.caller) # "USER") =>
         /\ Returned(q)
         /\ sent' = InsufficientPermissions
         /\ UNCHANGED <<applications, loans, transactions>>]_vars

\* the smallest amount payEMISchema lets through, in cents
MinimumPayment == 100

\* C28: every loan that is not paid has a payment that would be accepted: an
\* amount of at least MinimumPayment that is not above principalLeft, which
\* there is exactly when principalLeft itself is such an amount.
C28_UnpaidLoanCanBePaid ==
  \A l \in DOMAIN loans :
    ~loans[l].isPaid => loans[l].principalLeft >= MinimumPayment

\* C29: the schedule returned for a loan that is paid, with nothing left to
\* pay, has no PENDING row: every row is PAID.
C29_PaidLoanHasNoPendingRow ==
  (/\ sent.message = ScheduleRetrievedMessage
   /\ loans[sent.data.loan.id].isPaid
   /\ loans[sent.data.loan.id].principalLeft = 0)
  => \A i \in DOMAIN sent.data.schedule : sent.data.schedule[i].status = "PAID"

\* request q is a verify request that finds its application PENDING, or a
\* valid approve request that finds its application VERIFIED
FindsItsApplication(q) ==
  /\ q.pc = "findById" =>
       /\ q.id \in DOMAIN applications
       /\ applications[q.id].status =
            (IF q.op = "verifyApplication" THEN PENDING ELSE VERIFIED)
  /\ \/ q.op = "verifyApplication"
     \/ /\ q.op = "approveApplication"
        /\ q.status = APPROVED => ~MissingInterestRate(q.interestRate)

Terminal(id) ==
  id \in DOMAIN applications /\ applications[id].status \in {APPROVED, REJECTED}

====
